---- MODULE Spec2Model ----
(***************************************************************************)
(* Model of src/app.py: the Logistics Performance Analyzer script.         *)
(*                                                                         *)
(* One run of the script is a linear pass over an uploaded table: load,    *)
(* locate the duration column, parse durations, drop rows without a        *)
(* positive duration, derive Pieces / Min_per_Piece / Start_Hour, render   *)
(* the dashboard, export.  Any exception inside the try block (line 66)    *)
(* transfers control to the handler at line 250.                           *)
(*                                                                         *)
(* Representation.                                                         *)
(*  - A Python string is a sequence of one-character strings.              *)
(*  - A cell of the uploaded table is a record [kind, s, n]: kind "nan"    *)
(*    (empty cell), "str" (text s), "num" (integer n), "dt" (a native      *)
(*    datetime whose clock is n seconds after midnight).                   *)
(*  - A Python/numpy float is a record [k, n, d]: k = "fin" is the exact   *)
(*    rational n/d in lowest terms with d > 0; k = "nan", "inf", "ninf"    *)
(*    are the IEEE specials; k = "none" is Python's None.  Binary          *)
(*    rounding of the quotient is not modelled.                            *)
(***************************************************************************)
EXTENDS Integers, Sequences, FiniteSets, TLC

VARIABLES
  pc,             \* position of the script
  uploaded_file,  \* the file handed to the uploader (line 59)
  columns,        \* df.columns
  df,             \* rows of the data frame (raw cells)
  time_col,       \* column chosen at lines 79-88
  Duration_Min,   \* derived column, parallel to df
  Pieces,         \* derived column, parallel to df
  Min_per_Piece,  \* derived column, parallel to df
  Start_Hour,     \* derived column, parallel to df
  metrics,        \* values handed to the four st.metric cards
  mat_stats,      \* df.groupby('Material').agg(...)
  rendered,       \* widgets written to the page, in order
  exc,            \* exception in flight / caught, "none" if none
  parse_arg,      \* argument of a direct parse_time_duration call
  parse_res       \* its result

vars == <<pc, uploaded_file, columns, df, time_col, Duration_Min, Pieces,
          Min_per_Piece, Start_Hour, metrics, mat_stats, rendered, exc,
          parse_arg, parse_res>>

-----------------------------------------------------------------------------
(* Bounds of the model *)

\* longest enumerated input string of the parser harness
MaxLen == 3
\* most rows in an uploaded table
MaxRows == 2

-----------------------------------------------------------------------------
(* Floats *)

Abs(x) == IF x < 0 THEN -x ELSE x

RECURSIVE GCD(_, _)
GCD(a, b) == IF b = 0 THEN a ELSE GCD(b, a % b)

None == [k |-> "none", n |-> 0, d |-> 1]
FNaN == [k |-> "nan", n |-> 0, d |-> 1]
FInf == [k |-> "inf", n |-> 0, d |-> 1]
FNegInf == [k |-> "ninf", n |-> 0, d |-> 1]
Pending == [k |-> "pending", n |-> 0, d |-> 1]

\* the rational a/b, b # 0, in lowest terms
Rat(a, b) ==
  LET g == GCD(Abs(a), Abs(b))
      s == IF b < 0 THEN -1 ELSE 1
  IN [k |-> "fin", n |-> (s * a) \div g, d |-> (s * b) \div g]

Fin(a) == Rat(a, 1)

IsFin(x) == x.k = "fin"

\* x > 0 as pandas evaluates it element-wise: missing values compare False
GtZero(x) ==
  CASE x.k = "fin" -> x.n > 0
    [] x.k = "inf" -> TRUE
    [] OTHER -> FALSE

\* numpy true division (no ZeroDivisionError: x/0 is inf, -inf or nan)
FDiv(x, y) ==
  CASE x.k = "nan" \/ y.k = "nan" -> FNaN
    [] x.k = "fin" /\ y.k = "fin" ->
         IF y.n # 0 THEN Rat(x.n * y.d, x.d * y.n)
         ELSE IF x.n > 0 THEN FInf
         ELSE IF x.n < 0 THEN FNegInf
         ELSE FNaN
    [] x.k = "fin" -> Fin(0)
    [] y.k = "fin" ->
         IF (x.k = "inf") = (y.n >= 0) THEN FInf ELSE FNegInf
    [] OTHER -> FNaN

FAdd(x, y) ==
  CASE x.k = "nan" \/ y.k = "nan" -> FNaN
    [] x.k = "fin" /\ y.k = "fin" -> Rat(x.n * y.d + y.n * x.d, x.d * y.d)
    [] x.k = "fin" -> y
    [] y.k = "fin" -> x
    [] x.k = y.k -> x
    [] OTHER -> FNaN

\* Series.sum(): the empty sum is 0
RECURSIVE FSum(_)
FSum(xs) == IF xs = <<>> THEN Fin(0) ELSE FAdd(Head(xs), FSum(Tail(xs)))

\* Series.mean(): the mean of an empty series is NaN
FMean(xs) == IF xs = <<>> THEN FNaN ELSE FDiv(FSum(xs), Fin(Len(xs)))

-----------------------------------------------------------------------------
(* Strings *)

RECURSIVE lstrip(_)
lstrip(s) == IF s # <<>> /\ Head(s) = " " THEN lstrip(Tail(s)) ELSE s

RECURSIVE rstrip(_)
rstrip(s) ==
  IF s # <<>> /\ s[Len(s)] = " " THEN rstrip(SubSeq(s, 1, Len(s) - 1)) ELSE s

\* str.strip()
strip(s) == rstrip(lstrip(s))

\* c in s
contains(s, c) == \E i \in 1..Len(s) : s[i] = c

\* str.split(sep) with an explicit one-character separator: empty parts kept
RECURSIVE split(_, _)
split(s, sep) ==
  IF ~contains(s, sep) THEN <<s>>
  ELSE LET i == CHOOSE j \in 1..Len(s) :
                  s[j] = sep /\ \A l \in 1..(j - 1) : s[l] # sep
       IN <<SubSeq(s, 1, i - 1)>> \o split(SubSeq(s, i + 1, Len(s)), sep)

DigitChars == <<"0", "1", "2", "3", "4", "5", "6", "7", "8", "9">>

Digit(c) == CHOOSE v \in 0..9 : DigitChars[v + 1] = c

IsDigit(c) == \E v \in 0..9 : DigitChars[v + 1] = c

RECURSIVE digits_value(_)
digits_value(s) ==
  IF s = <<>> THEN 0
  ELSE 10 * digits_value(SubSeq(s, 1, Len(s) - 1)) + Digit(s[Len(s)])

\* int(s): surrounding whitespace and one sign are accepted, then decimal
\* digits only; anything else raises ValueError (ok = FALSE)
int(s) ==
  LET t == strip(s)
      signed == t # <<>> /\ Head(t) \in {"-", "+"}
      body == IF signed THEN Tail(t) ELSE t
      good == body # <<>> /\ \A i \in 1..Len(body) : IsDigit(body[i])
  IN IF ~good THEN [ok |-> FALSE, v |-> 0]
     ELSE [ok |-> TRUE,
           v |-> IF signed /\ Head(t) = "-" THEN -digits_value(body)
                 ELSE digits_value(body)]

-----------------------------------------------------------------------------
(* Cells *)

CNaN == [kind |-> "nan", s |-> <<>>, n |-> 0]
CStr(s) == [kind |-> "str", s |-> s, n |-> 0]
CNum(n) == [kind |-> "num", s |-> <<>>, n |-> n]
\* a datetime / Timestamp whose clock part is h:m:sec
CDt(h, m, sec) == [kind |-> "dt", s |-> <<>>, n |-> h * 3600 + m * 60 + sec]

-----------------------------------------------------------------------------
(* parse_time_duration, lines 21-41 *)

\* line 36: int(parts[0]) * 60 + int(parts[1]) + int(parts[2]) / 60
hms_minutes(h, m, sec) == Rat(h * 3600 + m * 60 + sec, 60)

\* the same with clock ranges enforced
hm_minutes_bounded(h, m) ==
  IF h \in 0..23 /\ m \in 0..59 THEN Fin(h * 60 + m) ELSE None

\* line 38: int(parts[0]) * 60 + int(parts[1])
hm_minutes(h, m) == Fin(h * 60 + m)

parse_time_duration(val) ==
  IF val.kind = "nan" \/ (val.kind = "str" /\ val.s = <<>>) THEN None
  ELSE IF val.kind = "dt"
    THEN hms_minutes(val.n \div 3600, (val.n % 3600) \div 60, val.n % 60)
  ELSE IF val.kind = "num" THEN None   \* str(number) holds no colon
  ELSE
    LET parts == split(strip(val.s), ":")
        p(i) == int(parts[i])
    IN IF Len(parts) = 3
         THEN IF p(1).ok /\ p(2).ok /\ p(3).ok
                THEN hms_minutes(p(1).v, p(2).v, p(3).v)
                ELSE None
       ELSE IF Len(parts) = 2
         THEN IF p(1).ok /\ p(2).ok THEN hm_minutes(p(1).v, p(2).v)
              ELSE None
       ELSE None

-----------------------------------------------------------------------------
(* clean_time_string, lines 43-50; the argument is already a str
   (line 114 applies it after astype(str)), so pd.isna is never true *)

clean_time_string(t_str) ==
  LET t == strip(t_str)
  IN IF contains(t, " ") THEN split(t, " ")[2] ELSE t

\* Series.astype(str) on one cell: an empty cell becomes the text "nan"
astype_str(c) ==
  CASE c.kind = "str" -> c.s
    [] c.kind = "nan" -> <<"n", "a", "n">>
    [] OTHER -> <<"?">>

\* line 114, the lambda: the text of the hour, '00' when no clock is seen
start_hour_text(x) ==
  LET c == clean_time_string(x)
  IN IF c # <<>> /\ contains(c, ":") THEN split(c, ":")[1] ELSE <<"0", "0">>

-----------------------------------------------------------------------------
(* Column names.  The substring tests of lines 81, 86, 104 and 113 are
   tabulated for the column names the model's tables use. *)

ColDN == "DN NUMBER (SAP)"
ColMaterial == "Material"
ColCustomer == "CUSTOMER"
ColStart == "START"
ColStartAlt == "Start time"
ColEnd == "END"
ColProcess == "Process Time"
ColCleaned == "Process Time - cleaned"
ColPieces == "Number of pieces"
ColPiecesAlt == "pieces total"
NoCol == "<none>"

AllCols == <<ColDN, ColMaterial, ColCustomer, ColStart, ColStartAlt, ColEnd,
             ColProcess, ColCleaned, ColPieces, ColPiecesAlt>>

\* line 81: "cleaned" in c.lower() and "time" in c.lower()
CleanedTimeCols == {ColCleaned}
\* line 86: "process time" in c.lower()
ProcessTimeCols == {ColProcess, ColCleaned}
\* line 104: df.columns.str.contains('pieces')  (case-sensitive)
PiecesCols == {ColPieces, ColPiecesAlt}
\* line 113: df.columns.str.contains('START', case=False)
StartCols == {ColStart, ColStartAlt}

has_col(cols, c) == \E i \in 1..Len(cols) : cols[i] = c

\* the first column whose name passes the test, NoCol when there is none
first_col(cols, matching) ==
  IF \E i \in 1..Len(cols) : cols[i] \in matching
    THEN cols[CHOOSE i \in 1..Len(cols) :
                cols[i] \in matching /\ \A j \in 1..(i - 1) : cols[j] \notin matching]
    ELSE NoCol

\* lines 79-88
find_time_col(cols) ==
  IF first_col(cols, CleanedTimeCols) # NoCol
    THEN first_col(cols, CleanedTimeCols)
    ELSE first_col(cols, ProcessTimeCols)

\* line 104; NoCol stands for the IndexError of [0] on an empty Index
find_qty_col(cols) ==
  IF has_col(cols, ColPieces) THEN ColPieces
  ELSE first_col(cols, PiecesCols)

\* line 113; NoCol stands for the IndexError of [0] on an empty Index
find_start_col(cols) ==
  IF has_col(cols, ColStart) THEN ColStart
  ELSE first_col(cols, StartCols)

-----------------------------------------------------------------------------
(* Column-wise operations *)

\* xs restricted to the positions where keep holds
RECURSIVE select(_, _)
select(xs, keep) ==
  IF xs = <<>> THEN <<>>
  ELSE (IF Head(keep) THEN <<Head(xs)>> ELSE <<>>)
         \o select(Tail(xs), Tail(keep))

\* line 93 / line 98
duration_column(rows, tc) ==
  [i \in 1..Len(rows) |->
     IF tc # NoCol THEN parse_time_duration(rows[i].time) ELSE Fin(0)]

\* line 101: the mask df['Duration_Min'] > 0
positive_mask(dur) == [i \in 1..Len(dur) |-> GtZero(dur[i])]

\* line 105: pd.to_numeric(cell, errors='coerce'), then fillna(0)
to_numeric_fill0(c) ==
  CASE c.kind = "num" -> Fin(c.n)
    [] c.kind = "str" -> IF int(c.s).ok THEN Fin(int(c.s).v) ELSE Fin(0)
    [] OTHER -> Fin(0)

\* line 108 alone, without the repair of line 110
min_per_piece_raw(dur, pieces) == FDiv(dur, pieces)

\* lines 108-110
min_per_piece(dur, pieces) ==
  IF pieces = Fin(0) THEN Fin(0) ELSE FDiv(dur, pieces)

-----------------------------------------------------------------------------
(* Headline figures, lines 122-130 *)

RECURSIVE Pow10(_)
Pow10(e) == IF e = 0 THEN 1 ELSE 10 * Pow10(e - 1)

\* n/d (d > 0) rounded to the nearest integer, ties to even
RoundHalfEven(n, d) ==
  LET q == n \div d
      r == n - q * d
  IN IF 2 * r < d THEN q
     ELSE IF 2 * r > d THEN q + 1
     ELSE IF q % 2 = 0 THEN q ELSE q + 1

\* f"{x:.<dec>f}": the count of 10^-dec units shown, or the special shown
Format(x, dec) ==
  IF IsFin(x) THEN [k |-> "fin", units |-> RoundHalfEven(x.n * Pow10(dec), x.d)]
  ELSE [k |-> x.k, units |-> 0]

\* line 123: the mean of the per-row ratios
mean_of_ratios(dur, pieces, mpp) == FMean(mpp)

\* line 125: df['Duration_Min'].sum() / df['Pieces'].sum()
weighted_avg_piece_time(dur, pieces, mpp) == FDiv(FSum(dur), FSum(pieces))

\* line 129: len(df)
order_count(rows) == Len(rows)

NoMetrics ==
  [avg_order_time |-> Pending, avg_piece_time |-> Pending,
   weighted_avg_piece_time |-> Pending,
   col1 |-> [k |-> "pending", units |-> 0],
   col2 |-> [k |-> "pending", units |-> 0],
   col3 |-> -1,
   col4 |-> [k |-> "pending", units |-> 0]]

-----------------------------------------------------------------------------
(* Material statistics, lines 138-143 *)

MaterialOrder == <<"A">>

\* positions of the rows of one material
rows_of(rows, m) == [i \in 1..Len(rows) |-> rows[i].material = m]

\* one row of mat_stats
material_group(rows, dur, pieces, mpp, m) ==
  [Material |-> m,
   Duration_Min |-> FMean(select(dur, rows_of(rows, m))),
   Min_per_Piece |-> FMean(select(mpp, rows_of(rows, m))),
   count |-> Len(select(rows, rows_of(rows, m))),
   Pieces |-> FSum(select(pieces, rows_of(rows, m)))]

\* groupby('Material').agg(...): one row per material present, keys sorted
material_stats(rows, dur, pieces, mpp) ==
  LET all == [j \in 1..Len(MaterialOrder) |->
                material_group(rows, dur, pieces, mpp, MaterialOrder[j])]
  IN select(all, [j \in 1..Len(MaterialOrder) |-> all[j].count > 0])

-----------------------------------------------------------------------------
(* Uploaded files *)

T_0_10 == <<"0", ":", "1", "0">>
T_0_20 == <<"0", ":", "2", "0">>
T_not_a_time == <<"n", "o", "t", " ", "a", " ", "t", "i", "m", "e">>
T_22_00 == <<"2", "2", ":", "0", "0">>
T_02_00 == <<"0", "2", ":", "0", "0">>
T_ab_cd == <<"a", "b", ":", "c", "d">>
T_99_99 == <<"9", "9", ":", "9", "9">>
T_excel == <<"1", "9", "0", "0", "-", "0", "1", "-", "0", "1", " ",
             "1", "4", ":", "0", "0", ":", "0", "0">>

TimeCells == {CStr(T_0_10), CStr(T_0_20), CStr(T_not_a_time)}
PiecesCells == {CNum(2), CNum(3), CStr(<<"x">>)}
StartCells == {CStr(T_22_00), CStr(T_ab_cd)}
EndCells == {CStr(T_02_00)}
MaterialCells == {"A"}

\* One row.  When a table carries both duration columns, or both spellings
\* of the pieces or START column, the model gives them the same cells; the
\* cell of a column the table lacks is never read.
Rows ==
  [time : TimeCells, pieces : PiecesCells, start : StartCells,
   end : EndCells, material : MaterialCells]

Tables == UNION {[1..n -> Rows] : n \in 0..MaxRows}

without(cols, dropped) ==
  select(cols, [i \in 1..Len(cols) |-> cols[i] \notin dropped])

Alt == {ColStartAlt, ColPiecesAlt}

ColumnSets ==
  {without(AllCols, d) : d \in
     {Alt,
      Alt \cup {ColCleaned},
      Alt \cup {ColProcess, ColCleaned},
      {ColStartAlt, ColPieces},
      {ColPiecesAlt, ColStart},
      Alt \cup {ColPieces},
      Alt \cup {ColStart},
      Alt \cup {ColMaterial},
      Alt \cup {ColCustomer},
      Alt \cup {ColDN}}}

NoFile == [present |-> FALSE, readable |-> FALSE, columns |-> <<>>, rows |-> <<>>]

\* a file pd.read_csv / pd.read_excel cannot read
BrokenFile == [present |-> TRUE, readable |-> FALSE, columns |-> <<>>, rows |-> <<>>]

Files ==
  {[present |-> TRUE, readable |-> TRUE, columns |-> c, rows |-> r] :
     c \in ColumnSets, r \in Tables} \cup {BrokenFile}

-----------------------------------------------------------------------------
(* The script *)

PipelineInit ==
  /\ uploaded_file = NoFile
  /\ columns = <<>>
  /\ df = <<>>
  /\ time_col = NoCol
  /\ Duration_Min = <<>>
  /\ Pieces = <<>>
  /\ Min_per_Piece = <<>>
  /\ Start_Hour = <<>>
  /\ metrics = NoMetrics
  /\ mat_stats = <<>>
  /\ rendered = <<>>
  /\ exc = "none"

Init ==
  /\ pc = "start"
  /\ PipelineInit
  /\ parse_arg = CNaN
  /\ parse_res = Pending

data == <<columns, df, time_col, Duration_Min, Pieces, Min_per_Piece,
          Start_Hour, metrics, mat_stats>>

harness == <<parse_arg, parse_res>>

\* an exception leaves the try block for the handler of line 250
Raise(e) == exc' = e /\ pc' = "except"

Goto(l) == exc' = exc /\ pc' = l

Show(ws) == rendered' = rendered \o ws

\* line 59: the user hands a file to the uploader
Upload ==
  /\ pc = "start"
  /\ \E f \in Files : uploaded_file' = f
  /\ pc' = "load"
  /\ UNCHANGED <<data, rendered, exc, harness>>

\* lines 65, 254-255: no file
NoUpload ==
  /\ pc = "start"
  /\ Show(<<"info_upload">>)
  /\ pc' = "done"
  /\ UNCHANGED <<uploaded_file, data, exc, harness>>

\* lines 68-71
Load ==
  /\ pc = "load"
  /\ IF uploaded_file.readable
       THEN /\ df' = uploaded_file.rows
            /\ columns' = uploaded_file.columns
            /\ Goto("find_time_col")
       ELSE /\ UNCHANGED <<df, columns>>
            /\ Raise("ReadError")
  /\ UNCHANGED <<uploaded_file, time_col, Duration_Min, Pieces, Min_per_Piece,
                 Start_Hour, metrics, mat_stats, rendered, harness>>

\* lines 79-88
FindTimeCol ==
  /\ pc = "find_time_col"
  /\ time_col' = find_time_col(columns)
  /\ pc' = "duration"
  /\ UNCHANGED <<uploaded_file, columns, df, Duration_Min, Pieces,
                 Min_per_Piece, Start_Hour, metrics, mat_stats, rendered, exc,
                 harness>>

\* lines 92-98
PrepareDuration ==
  /\ pc = "duration"
  /\ Duration_Min' = duration_column(df, time_col)
  /\ columns' = Append(columns, "Duration_Min")
  /\ IF time_col # NoCol THEN UNCHANGED rendered
     ELSE Show(<<"warning_no_process_time">>)
  /\ pc' = "filter"
  /\ UNCHANGED <<uploaded_file, df, time_col, Pieces, Min_per_Piece,
                 Start_Hour, metrics, mat_stats, exc, harness>>

\* line 101
FilterRows ==
  /\ pc = "filter"
  /\ df' = select(df, positive_mask(Duration_Min))
  /\ Duration_Min' = select(Duration_Min, positive_mask(Duration_Min))
  /\ pc' = "pieces"
  /\ UNCHANGED <<uploaded_file, columns, time_col, Pieces, Min_per_Piece,
                 Start_Hour, metrics, mat_stats, rendered, exc, harness>>

\* lines 104-105
PiecesStep ==
  /\ pc = "pieces"
  /\ IF find_qty_col(columns) = NoCol
       THEN /\ UNCHANGED <<Pieces, columns>>
            /\ Raise("IndexError")
       ELSE /\ Pieces' = [i \in 1..Len(df) |-> to_numeric_fill0(df[i].pieces)]
            /\ columns' = Append(columns, "Pieces")
            /\ Goto("min_per_piece")
  /\ UNCHANGED <<uploaded_file, df, time_col, Duration_Min, Min_per_Piece,
                 Start_Hour, metrics, mat_stats, rendered, harness>>

\* lines 108-110
MinPerPieceStep ==
  /\ pc = "min_per_piece"
  /\ Min_per_Piece' =
       [i \in 1..Len(df) |-> min_per_piece(Duration_Min[i], Pieces[i])]
  /\ columns' = Append(columns, "Min_per_Piece")
  /\ pc' = "start_hour"
  /\ UNCHANGED <<uploaded_file, df, time_col, Duration_Min, Pieces,
                 Start_Hour, metrics, mat_stats, rendered, exc, harness>>

\* the hour texts of line 114 before astype(int)
hour_texts(rows) ==
  [i \in 1..Len(rows) |-> start_hour_text(astype_str(rows[i].start))]

\* lines 113-114
StartHourStep ==
  /\ pc = "start_hour"
  /\ IF find_start_col(columns) = NoCol
       THEN /\ UNCHANGED <<Start_Hour, columns>>
            /\ Raise("IndexError")
       ELSE IF \E i \in 1..Len(df) : ~int(hour_texts(df)[i]).ok
       THEN /\ UNCHANGED <<Start_Hour, columns>>
            /\ Raise("ValueError")
       ELSE /\ Start_Hour' = [i \in 1..Len(df) |-> int(hour_texts(df)[i]).v]
            /\ columns' = Append(columns, "Start_Hour")
            /\ Goto("metrics")
  /\ UNCHANGED <<uploaded_file, df, time_col, Duration_Min, Pieces,
                 Min_per_Piece, metrics, mat_stats, rendered, harness>>

\* lines 119-132
Metrics ==
  /\ pc = "metrics"
  /\ metrics' =
       [avg_order_time |-> FMean(Duration_Min),
        avg_piece_time |-> FMean(Min_per_Piece),
        weighted_avg_piece_time |->
          weighted_avg_piece_time(Duration_Min, Pieces, Min_per_Piece),
        col1 |-> Format(FMean(Duration_Min), 1),
        col2 |-> Format(weighted_avg_piece_time(Duration_Min, Pieces,
                                                Min_per_Piece), 2),
        col3 |-> order_count(df),
        col4 |-> Format(FSum(Pieces), 0)]
  /\ Show(<<"subheader_productivity", "metric_avg_order_time",
            "metric_avg_piece_time", "metric_orders", "metric_pieces">>)
  /\ pc' = "materials"
  /\ UNCHANGED <<uploaded_file, columns, df, time_col, Duration_Min, Pieces,
                 Min_per_Piece, Start_Hour, mat_stats, exc, harness>>

\* lines 135-162
MaterialStats ==
  /\ pc = "materials"
  /\ IF has_col(columns, ColMaterial) /\ has_col(columns, ColDN)
       THEN /\ mat_stats' =
                 material_stats(df, Duration_Min, Pieces, Min_per_Piece)
            /\ Show(<<"subheader_materials", "dataframe_top_slowest">>)
            /\ Goto("customers")
       ELSE /\ UNCHANGED mat_stats
            /\ Show(<<"subheader_materials">>)
            /\ Raise("KeyError")
  /\ UNCHANGED <<uploaded_file, columns, df, time_col, Duration_Min, Pieces,
                 Min_per_Piece, Start_Hour, metrics, harness>>

\* lines 167-181
CustomerStats ==
  /\ pc = "customers"
  /\ IF has_col(columns, ColCustomer)
       THEN /\ Show(<<"subheader_customers", "chart_customers">>)
            /\ Goto("charts")
       ELSE /\ Show(<<"subheader_customers">>)
            /\ Raise("KeyError")
  /\ UNCHANGED <<uploaded_file, data, harness>>

\* lines 184-223: packaging pie, hourly bar chart, pieces/duration scatter
Charts ==
  /\ pc = "charts"
  /\ Show(<<"subheader_packaging", "chart_packaging", "subheader_timeline",
            "chart_timeline", "subheader_correlation", "chart_correlation">>)
  /\ pc' = "export"
  /\ UNCHANGED <<uploaded_file, data, exc, harness>>

\* lines 226-248
Export ==
  /\ pc = "export"
  /\ Show(<<"subheader_export", "download_button">>)
  /\ pc' = "done"
  /\ UNCHANGED <<uploaded_file, data, exc, harness>>

\* a handler that swallows the exception without a message
handler_silent == <<>>

\* what the handler of lines 250-252 writes
handler_output == <<"error", "warning_check_columns">>

\* lines 250-252
Except ==
  /\ pc = "except"
  /\ Show(handler_output)
  /\ pc' = "done"
  /\ UNCHANGED <<uploaded_file, data, exc, harness>>

Next ==
  \/ Upload
  \/ NoUpload
  \/ Load
  \/ FindTimeCol
  \/ PrepareDuration
  \/ FilterRows
  \/ PiecesStep
  \/ MinPerPieceStep
  \/ StartHourStep
  \/ Metrics
  \/ MaterialStats
  \/ CustomerStats
  \/ Charts
  \/ Export
  \/ Except

Spec == Init /\ [][Next]_vars

-----------------------------------------------------------------------------
(* Direct calls of parse_time_duration *)

Alphabet == {"1", "9", ":", " ", "a", "-"}

Strings == UNION {[1..n -> Alphabet] : n \in 0..MaxLen}

Numbers == {0, 1, 9, 14, 22, 59, 99}

\* decimal text of a natural number
RECURSIVE Dec(_)
Dec(n) == IF n < 10 THEN <<DigitChars[n + 1]>>
          ELSE Dec(n \div 10) \o <<DigitChars[(n % 10) + 1]>>

\* the same, zero-padded to two digits
Pad2(n) == IF n < 10 THEN <<"0">> \o Dec(n) ELSE Dec(n)

Texts(n) == {Dec(n), Pad2(n)}

HM(a, b) == a \o <<":">> \o b

HMS(a, b, c) == a \o <<":">> \o b \o <<":">> \o c

ClockStrings ==
  {HM(a, b) : a \in UNION {Texts(h) : h \in Numbers},
              b \in UNION {Texts(m) : m \in Numbers}}
  \cup {HMS(Dec(h), Pad2(m), Pad2(s)) : h \in Numbers, m \in Numbers,
                                        s \in Numbers}

ParseInputs ==
  {CStr(s) : s \in Strings \cup ClockStrings \cup {T_not_a_time, T_excel, T_ab_cd}}
  \cup {CNaN, CNum(5), CDt(14, 0, 0), CDt(23, 59, 30)}

ParseInit ==
  /\ pc = "parse_call"
  /\ PipelineInit
  /\ parse_arg \in ParseInputs
  /\ parse_res = Pending

ParseCall ==
  /\ pc = "parse_call"
  /\ parse_res' = parse_time_duration(parse_arg)
  /\ pc' = "parse_done"
  /\ UNCHANGED <<uploaded_file, data, rendered, exc, parse_arg>>

ParseNext == ParseCall

ParseSpec == ParseInit /\ [][ParseNext]_vars

-----------------------------------------------------------------------------
(* Properties *)

shown(w) == \E i \in 1..Len(rendered) : rendered[i] = w

DashboardWidgets ==
  {"metric_avg_order_time", "metric_avg_piece_time", "metric_orders",
   "metric_pieces", "dataframe_top_slowest", "chart_customers",
   "chart_packaging", "chart_timeline", "chart_correlation",
   "download_button"}

\* the run went through the whole script without raising
Completed == pc = "done" /\ uploaded_file.present /\ exc = "none"

\* the input rows whose primary duration is positive
valid_input_rows(file) ==
  select(file.rows,
         positive_mask(duration_column(file.rows, find_time_col(file.columns))))

\* C1: after a completed run over N input rows the order-count card
\* ('Celkem Zakázek') shows N, valid and invalid rows together, and the rows
\* with Duration_Min > 0 are at most N.  (The script has no widget for the
\* invalid count N - valid that the claim also speaks of.)
C1_HeadlineCountsAllRows ==
  Completed =>
    /\ metrics.col3 = Len(uploaded_file.rows)
    /\ Len(valid_input_rows(uploaded_file)) <= Len(uploaded_file.rows)

\* C2: a table in which no row has Duration_Min > 0 ends in a hard stop: an
\* error message is shown and no metric card, table, chart or export button
\* is rendered.
C2_NoUsableDurationHardStop ==
  (pc = "done" /\ uploaded_file.readable
     /\ valid_input_rows(uploaded_file) = <<>>) =>
    /\ shown("error")
    /\ \A w \in DashboardWidgets : ~shown(w)

\* the duration the claim C3 assigns to a row without a positive primary
\* duration: END minus START in minutes, 1440 added when negative, absent
\* when either is unparseable
start_end_duration(row) ==
  LET s == parse_time_duration(row.start)
      e == parse_time_duration(row.end)
      diff == FAdd(e, FDiv(s, Fin(-1)))
  IN IF ~IsFin(s) \/ ~IsFin(e) THEN None
     ELSE IF diff.n < 0 THEN FAdd(diff, Fin(1440)) ELSE diff

\* C3: a row that carries no positive primary duration gets its duration
\* from START and END (22:00 to 02:00 gives 240 minutes).
C3_StartEndFallback ==
  pc = "filter" =>
    \A i \in 1..Len(df) :
      ~(time_col # NoCol /\ GtZero(parse_time_duration(df[i].time))) =>
        Duration_Min[i] = start_end_duration(df[i])

\* the text after the last space
RECURSIVE after_last_space(_)
after_last_space(s) ==
  IF contains(s, " ")
    THEN after_last_space(SubSeq(s, 1 + (CHOOSE j \in 1..Len(s) : s[j] = " "),
                                 Len(s)))
    ELSE s

\* C4: a string holding a space is parsed as its part after the last space;
\* "1900-01-01 14:00:00" gives 840.
C4_DatePrefixStripped ==
  (pc = "parse_done" /\ parse_arg.kind = "str"
     /\ contains(strip(parse_arg.s), " ")) =>
    /\ parse_res =
         parse_time_duration(CStr(after_last_space(strip(parse_arg.s))))
    /\ parse_arg.s = T_excel => parse_res = Fin(840)

DigitSet == {"0", "1", "2", "3", "4", "5", "6", "7", "8", "9"}

\* a decimal integer literal: digits with an optional minus sign
IsInteger(s) ==
  LET b == IF s # <<>> /\ Head(s) = "-" THEN Tail(s) ELSE s
  IN b # <<>> /\ \A i \in 1..Len(b) : b[i] \in DigitSet

\* its value, read left to right
RECURSIVE Horner(_, _)
Horner(s, acc) ==
  IF s = <<>> THEN acc
  ELSE Horner(Tail(s),
              10 * acc + (CHOOSE v \in 0..9 : Dec(v) = <<Head(s)>>))

IntegerValue(s) ==
  IF Head(s) = "-" THEN -Horner(Tail(s), 0) ELSE Horner(s, 0)

Colons(s) == {i \in 1..Len(s) : s[i] = ":"}

\* C5: H:M:S gives exactly H*60 + M + S/60 and H:M gives exactly H*60 + M,
\* with no range check on the parts ("99:99" gives 6039); any other number
\* of colon-separated parts gives absent.
C5_ColonFormsExact ==
  (pc = "parse_done" /\ parse_arg.kind = "str") =>
    LET s == parse_arg.s
        c == Colons(s)
        part(a, b) == SubSeq(s, a + 1, b - 1)
    IN /\ Cardinality(c) \notin {1, 2} => parse_res = None
       /\ \A i \in c :
            (c = {i} /\ IsInteger(part(0, i)) /\ IsInteger(part(i, Len(s) + 1)))
            => /\ parse_res.k = "fin"
               /\ parse_res.n = parse_res.d *
                    (IntegerValue(part(0, i)) * 60
                       + IntegerValue(part(i, Len(s) + 1)))
       /\ \A i, j \in c :
            (c = {i, j} /\ i < j /\ IsInteger(part(0, i))
               /\ IsInteger(part(i, j)) /\ IsInteger(part(j, Len(s) + 1)))
            => /\ parse_res.k = "fin"
               /\ 60 * parse_res.n = parse_res.d *
                    (IntegerValue(part(0, i)) * 3600
                       + IntegerValue(part(i, j)) * 60
                       + IntegerValue(part(j, Len(s) + 1)))
       /\ s = T_99_99 => parse_res = Fin(6039)

C5_Witness ==
  /\ pc = "parse_done"
  /\ parse_arg = CStr(T_99_99)
  /\ parse_res = Fin(6039)

\* the table has every column the script reads
AllColumnsPresent(file) ==
  /\ find_qty_col(file.columns) # NoCol
  /\ find_start_col(file.columns) # NoCol
  /\ \A c \in {ColMaterial, ColCustomer, ColDN} : has_col(file.columns, c)

\* C6: a malformed duration or START value in a row never aborts the run:
\* the run reaches the aggregates and the export.
C6_RowFailuresNeverAbort ==
  (pc = "done" /\ uploaded_file.readable /\ AllColumnsPresent(uploaded_file)) =>
    /\ exc = "none"
    /\ shown("metric_orders")
    /\ shown("download_button")

\* C7: without a pieces column the run does not abort: every row gets one
\* piece and a warning says so.
C7_NoPiecesColumnFallback ==
  (pc = "done" /\ uploaded_file.readable
     /\ find_qty_col(uploaded_file.columns) = NoCol) =>
    /\ exc # "IndexError"
    /\ shown("warning_no_pieces_column")
    /\ Len(Pieces) = Len(df)
    /\ \A i \in 1..Len(Pieces) : Pieces[i] = Fin(1)

\* C8: the per-piece card shows sum(Duration_Min) / sum(Pieces) over the
\* valid rows, not the mean of the per-row ratios; durations 10, 20 with
\* pieces 2, 3 show 6.00.
C8_WeightedPerPiece ==
  shown("metric_avg_piece_time") =>
    LET w == metrics.weighted_avg_piece_time
        D == FSum(Duration_Min)
        P == FSum(Pieces)
    IN /\ metrics.col2 = Format(w, 2)
       /\ P.n # 0 => /\ IsFin(w)
                     /\ w.n * P.n * D.d = D.n * w.d * P.d
       /\ (P.n = 0 /\ D.n > 0) => w = FInf
       /\ (P.n = 0 /\ D.n = 0) => w = FNaN
       /\ (Duration_Min = <<Fin(10), Fin(20)>> /\ Pieces = <<Fin(2), Fin(3)>>)
            => metrics.col2 = [k |-> "fin", units |-> 600]

C8_Witness ==
  /\ Completed
  /\ Duration_Min = <<Fin(10), Fin(20)>>
  /\ Pieces = <<Fin(2), Fin(3)>>
  /\ metrics.col2 = [k |-> "fin", units |-> 600]
  /\ metrics.avg_piece_time # metrics.weighted_avg_piece_time

\* C9: a valid row with zero pieces has Min_per_Piece exactly 0, and the
\* aggregates computed from Min_per_Piece are finite.
C9_ZeroPiecesGiveZero ==
  /\ has_col(columns, "Min_per_Piece") =>
       /\ Len(Min_per_Piece) = Len(df)
       /\ \A i \in 1..Len(df) :
            /\ IsFin(Min_per_Piece[i])
            /\ Pieces[i].n = 0 => Min_per_Piece[i] = Fin(0)
            /\ Pieces[i].n # 0 =>
                 Min_per_Piece[i].n * Pieces[i].n * Duration_Min[i].d
                   = Duration_Min[i].n * Min_per_Piece[i].d * Pieces[i].d
  /\ (shown("metric_avg_piece_time") /\ df # <<>>) =>
       IsFin(metrics.avg_piece_time)
  /\ \A g \in 1..Len(mat_stats) : IsFin(mat_stats[g].Min_per_Piece)

C9_Witness ==
  /\ Completed
  /\ Len(df) = 2
  /\ Pieces[1] = Fin(0) /\ Min_per_Piece[1] = Fin(0)
  /\ Pieces[2] = Fin(3)
  /\ Len(mat_stats) = 1
  /\ IsFin(mat_stats[1].Min_per_Piece)

\* the last two widgets on the page are the handler's
EndsWithHandlerOutput ==
  /\ Len(rendered) >= 2
  /\ SubSeq(rendered, Len(rendered) - 1, Len(rendered))
       = <<"error", "warning_check_columns">>

\* C10: a failure while loading or transforming the file is caught at the top
\* level: the run ends with the generic error message shown, nothing but the
\* handler's messages is rendered once the exception is raised, and the
\* script still terminates normally.
C10_FailureCaughtAtTopLevel ==
  /\ [](exc # "none" => pc \in {"except", "done"})
  /\ []((exc # "none" /\ pc = "done") =>
          /\ EndsWithHandlerOutput
          /\ ~shown("download_button")
          /\ (exc \in {"ReadError", "IndexError", "ValueError"} =>
                \A w \in DashboardWidgets : ~shown(w)))
  /\ [][exc # "none" =>
          /\ exc' = exc
          /\ rendered' \in {rendered,
                            rendered \o <<"error", "warning_check_columns">>}]_vars

C10_Witness ==
  /\ pc = "done"
  /\ exc = "ReadError"
  /\ rendered = <<"error", "warning_check_columns">>

====
